---- MODULE Spec2Model ----
(***************************************************************************)
(* A model of sw_manager.py: the rule set that addDep/buildDepGraph emit,  *)
(* the doit run that handleBuild starts on it, and the provisioning of a   *)
(* disk image by makeImage / applyOverlay / copyImgFiles.                  *)
(*                                                                         *)
(* Strings that the program concatenates (paths, names) are sequences of  *)
(* tokens, so that  bin + "-initramfs"  is  bin \o <<"-initramfs">>  and   *)
(* two paths are equal exactly when their texts are.                       *)
(***************************************************************************)
EXTENDS Integers, Sequences, FiniteSets, TLC

\* Bounds of the model.
MaxFiles == 2      \* longest 'files' list of a configuration
MaxJobs == 2       \* most jobs of the workload
MaxRuns == 2       \* invocations of the tool in a row

NoVal == <<>>      \* Python's None / an absent value

Range(s) == {s[i] : i \in 1..Len(s)}

\* ------------------------------------------------------------------------
\* The host file system the program reads (os.path.isdir / islink / walk).
\* ------------------------------------------------------------------------
Motd == <<"motd">>
Dir == <<"dir">>
Lnk == <<"lnk">>
DirA == <<"dir", "/a">>
DirS == <<"dir", "/s">>
DirSub == <<"dir", "/sub">>
DirSubB == <<"dir", "/sub", "/b">>
DirSubL == <<"dir", "/sub", "/l">>

LnkDir == <<"lnkdir">>

\* A path below the link lnkdir names what the same path below dir names, and
\* one below the link dir/s what the same path below dir/sub names.
UnderLnkDir(p) == IF Len(p) > 1 /\ Head(p) = "lnkdir" THEN Dir \o Tail(p) ELSE p
UnderDirS(p) == IF Len(p) > 2 /\ SubSeq(p, 1, 2) = DirS THEN DirSub \o SubSeq(p, 3, Len(p)) ELSE p
RealPath(p) == UnderDirS(UnderLnkDir(p))

\* What the path p, which names r, is (lstat): a regular file, a directory or
\* a symbolic link.
lstat(p, r) ==
    IF p = LnkDir \/ r \in {Lnk, DirS, DirSubL} THEN "link"
    ELSE IF r \in {Dir, DirSub} THEN "dir"
    ELSE "reg"

Kind(p) == lstat(p, RealPath(p))

\* What the symbolic link p, which names r, points to: lnk and dir/sub/l to
\* files, lnkdir and dir/s to directories.
readlink(p, r) ==
    CASE p = LnkDir -> Dir
      [] r = Lnk -> Motd
      [] r = DirS -> DirSub
      [] r = DirSubL -> DirA
      [] OTHER -> p

LinkTarget(p) == readlink(p, RealPath(p))

\* The entries of the directories.
Listing(d) ==
    CASE d = Dir -> <<DirA, DirS, DirSub>>
      [] d = DirSub -> <<DirSubB, DirSubL>>
      [] OTHER -> <<>>

\* the entries ents of the directory t, joined to the path d that names t
joined(d, t, ents) == [i \in 1..Len(ents) |-> d \o SubSeq(ents[i], Len(t) + 1, Len(ents[i]))]
listdir(d, t) == joined(d, t, Listing(t))

\* The entries of a directory, as os.walk lists them: the names in the
\* directory that d is or points to, joined to d.
Entries(d) == listdir(d, IF Kind(d) = "link" THEN LinkTarget(d) ELSE RealPath(d))

RECURSIVE Concat(_)
Concat(ss) == IF ss = <<>> THEN <<>> ELSE Head(ss) \o Concat(Tail(ss))

\* os.path.isdir follows symbolic links, os.path.islink does not
isdir(p) == Kind(IF Kind(p) = "link" THEN LinkTarget(p) ELSE p) = "dir"
islink(p) == Kind(p) = "link"

\* os.walk sorts the entries of a directory into files and directories with
\* isdir; it walks into the directories that are no links (followlinks is
\* False).
IsFile(e) == ~isdir(e)
IsWalked(e) == isdir(e) /\ ~islink(e)

\* os.walk(top): for every directory under top, the paths of its non-directory
\* entries (os.path.join(root, f) for f in files), directories first come first.
\* An entry that is a link to a directory is listed among the directories and
\* is not walked into.
RECURSIVE walkFiles(_)
RECURSIVE walkDirs(_)
walkDirs(subs) == IF subs = <<>> THEN <<>> ELSE walkFiles(Head(subs)) \o walkDirs(Tail(subs))
walkEntries(ents) == SelectSeq(ents, IsFile) \o walkDirs(SelectSeq(ents, IsWalked))
walkFiles(top) == walkEntries(Entries(top))

\* ------------------------------------------------------------------------
\* Configuration records (util.config): a mapping with optional keys.
\* 'keys' is the set of keys the mapping holds ('k' in config); a field whose
\* key is absent is never read by the program.
\* ------------------------------------------------------------------------
Has(config, k) == k \in config.keys

NoRunSpec == [command |-> NoVal, path |-> NoVal]

LinuxCfg == <<"linux.cfg">>
LinuxSrc == <<"riscv-linux">>
KernelDotConfig == <<"riscv-linux", "/.config">>
InitSh == <<"init.sh">>
RunSh == <<"run.sh">>
GenSh == <<"gen-run.sh">>
HostInitSh == <<"host-init.sh">>

Config(name, keys, bin, img, base, files, rs, jobs) ==
    [name |-> name, keys |-> keys, bin |-> bin, img |-> img, baseImg |-> base,
     files |-> files, guestInit |-> InitSh, runSpec |-> rs, jobs |-> jobs,
     linuxConfig |-> LinuxCfg, linuxSrc |-> LinuxSrc, hostInit |-> HostInitSh,
     cfgFile |-> name \o <<".json">>, outputs |-> <<<<"/root/out.txt">>, <<"/var/log">>>>]

FileSpec(src, dst) == [src |-> src, dst |-> dst]

\* The base distributions (util.config.distros) and the one the catalog holds.
BR == <<"br">>
BrImg == <<"br.img">>
distros == {BR \o <<".json">>}
BrCfg == Config(BR, {"img", "builder"}, NoVal, BrImg, NoVal, <<>>, NoRunSpec, <<>>)

\* ------------------------------------------------------------------------
\* addDep: the rules of one configuration, in the order they are appended to
\* loader.workloads.  err: the KeyError of config['img'] at line 122.
\* ------------------------------------------------------------------------
Rule(name, fn, cfg, initramfs, fdeps, tdeps, utd) ==
    [name |-> name, fn |-> fn, cfg |-> cfg, initramfs |-> initramfs,
     targets |-> <<name>>, file_dep |-> fdeps, task_dep |-> tdeps, uptodate |-> utd]

\* the symbolic links not left out
fileDepsOfSpecWithLinks(fSpec) ==
    IF isdir(fSpec.src) THEN walkFiles(fSpec.src) ELSE <<fSpec.src>>

\* lines 142-155: the file dependencies that one 'files' entry contributes
fileDepsOfSpec(fSpec) ==
    IF isdir(fSpec.src)
    THEN LET NotLink(f) == ~islink(f) IN SelectSeq(walkFiles(fSpec.src), NotLink)
    ELSE IF ~islink(fSpec.src) THEN <<fSpec.src>> ELSE <<>>

\* lines 103-116
binRule(config) ==
    Rule(config.bin, "makeBin", config.name, FALSE,
         IF Has(config, "linux-config") THEN <<config.linuxConfig>> ELSE <<>>,
         <<>>, "checkLinuxUpToDate")

\* the initramfs rule without its task dependency
initramfsRuleNoTaskDep(config) ==
    Rule(config.bin \o <<"-initramfs">>, "makeBin", config.name, TRUE,
         <<config.img>> \o (IF Has(config, "linux-config") THEN <<config.linuxConfig>> ELSE <<>>),
         <<>>, "none")

\* the initramfs rule under the plain binary's name
initramfsRuleSameTarget(config) ==
    Rule(config.bin, "makeBin", config.name, TRUE,
         <<config.img>> \o (IF Has(config, "linux-config") THEN <<config.linuxConfig>> ELSE <<>>),
         <<config.img>>, "none")

\* lines 121-133
initramfsRule(config) ==
    Rule(config.bin \o <<"-initramfs">>, "makeBin", config.name, TRUE,
         <<config.img>> \o (IF Has(config, "linux-config") THEN <<config.linuxConfig>> ELSE <<>>),
         <<config.img>>, "none")

\* lines 136-170
imgRule(config) ==
    LET base == IF Has(config, "base-img") THEN <<config.baseImg>> ELSE <<>>
        fl == IF Has(config, "files")
              THEN Concat([i \in 1..Len(config.files) |-> fileDepsOfSpec(config.files[i])])
              ELSE <<>>
        gi == IF Has(config, "guest-init") THEN <<config.guestInit>> ELSE <<>>
        rs == IF Has(config, "runSpec") /\ config.runSpec.path # NoVal
              THEN <<config.runSpec.path>> ELSE <<>>
        cf == IF Has(config, "cfg-file") THEN <<config.cfgFile>> ELSE <<>>
    IN  Rule(config.img, "makeImage", config.name, FALSE,
             base \o fl \o gi \o rs \o cf,
             base \o (IF Has(config, "guest-init") THEN <<config.bin>> ELSE <<>>),
             "none")

addDep(config) ==
    LET r1 == <<binRule(config)>>
        keyErr == Has(config, "initramfs") /\ ~Has(config, "img")
        r2 == IF Has(config, "initramfs") /\ ~keyErr THEN <<initramfsRule(config)>> ELSE <<>>
        r3 == IF Has(config, "img") /\ ~keyErr THEN <<imgRule(config)>> ELSE <<>>
    IN  [err |-> keyErr, rules |-> r1 \o r2 \o r3]

\* lines 195-197: a configuration's own rules, then those of its jobs
RECURSIVE addDepAll(_)
addDepAll(cs) ==
    IF cs = <<>> THEN [err |-> FALSE, rules |-> <<>>]
    ELSE LET h == addDep(Head(cs))
             t == addDepAll(Tail(cs))
         IN  IF h.err THEN h
             ELSE [err |-> t.err, rules |-> h.rules \o t.rules]

RECURSIVE SetToSeq(_)
SetToSeq(S) ==
    IF S = {} THEN <<>>
    ELSE LET x == CHOOSE y \in S : TRUE IN <<x>> \o SetToSeq(S \ {x})

\* lines 176-199.  The rules are looked up by name afterwards, so the order in
\* which the set of configuration paths is walked does not matter.
buildDepGraph(catalog) ==
    LET ds == SetToSeq(distros \cap DOMAIN catalog)
        HasImg(d) == Has(catalog[d], "img")
        dImgs == SelectSeq(ds, HasImg)
        dRules == [i \in 1..Len(dImgs) |->
                     Rule(catalog[dImgs[i]].img, "buildBaseImage", catalog[dImgs[i]].name,
                          FALSE, <<>>, <<>>, "upToDate")]
        others == SetToSeq(DOMAIN catalog \ distros)
        flat == Concat([i \in 1..Len(others) |->
                          <<catalog[others[i]]>>
                            \o (IF Has(catalog[others[i]], "jobs")
                                THEN catalog[others[i]].jobs ELSE <<>>)])
        rest == addDepAll(flat)
    IN  [err |-> rest.err, rules |-> dRules \o rest.rules]

\* ------------------------------------------------------------------------
\* The state.
\* ------------------------------------------------------------------------
VARIABLES
    catalog,    \* the workload directory: configuration path -> record, as loaded
    argv,       \* the command line: [initramfs, job]
    cfgs,       \* ConfigManager of this invocation (main pushes 'initramfs' into it)
    job,        \* args.job after main
    fs,         \* the files that exist: path -> version of the content
    boot,       \* image -> script its boot overlay runs (NoVal: cleared / none)
    mounted,    \* images loop-mounted on mnt
    db,         \* doit's dependency file: task -> file_dep states saved at its success
    workloads,  \* loader.workloads
    selected,   \* the task names given to doit
    finished,   \* tasks doit is through with in this invocation
    cur,        \* the task whose action is running (NoVal: none)
    frame,      \* copyImgFiles' activation: img, files, direction, i, ret, err
    pc,         \* position in the program
    err,        \* the exception that ended the invocation ("" while none)
    log,        \* what this invocation has done so far, in order
    run         \* number of this invocation

vars == <<catalog, argv, cfgs, job, fs, boot, mounted, db, workloads, selected,
          finished, cur, frame, pc, err, log, run>>

Ev(ev, what, arg) == [ev |-> ev, what |-> what, arg |-> arg]

Get(f, p, default) == IF p \in DOMAIN f THEN f[p] ELSE default
Put(f, p, v) == [q \in DOMAIN f \cup {p} |-> IF q = p THEN v ELSE f[q]]
exists(p) == Get(fs, p, 0) # 0
Touch(f, p) == Put(f, p, Get(f, p, 0) + 1)

EmptyFn == [p \in {} |-> 0]

NoFrame == [img |-> NoVal, files |-> <<>>, direction |-> "", i |-> 0, ret |-> "", err |-> ""]

\* ------------------------------------------------------------------------
\* The catalogs and command lines the model is run on.
\* ------------------------------------------------------------------------
W == <<"w">>
WBin == <<"w-bin">>
WImg == <<"w.img">>
U == <<"u">>
TargetPath == W \o <<".json">>
All == <<"all">>

FilePool == {FileSpec(Motd, <<"/etc/motd">>), FileSpec(Dir, <<"/opt">>), FileSpec(Lnk, <<"/lnk">>)}
FileLists == UNION {[1..k -> FilePool] : k \in 0..MaxFiles}
RunSpecs == {[command |-> <<"echo hi">>, path |-> NoVal], [command |-> NoVal, path |-> RunSh]}

BaseKeys == {"linux-src", "cfg-file"}

FilesOpts == {[keys |-> {}, files |-> <<>>]} \cup {[keys |-> {"files"}, files |-> fl] : fl \in FileLists}
\* A workload that runs something at boot names the outputs to copy out.
RunOpts == {[keys |-> {}, rs |-> NoRunSpec]} \cup {[keys |-> {"runSpec", "outputs"}, rs |-> r] : r \in RunSpecs}

\* A workload with an image and no jobs: every way of provisioning the image.
ImageConfigs ==
    {Config(W, BaseKeys \cup {"img"} \cup opt \cup f.keys \cup r.keys, WBin, WImg, BrImg,
            f.files, r.rs, <<>>) :
        opt \in SUBSET {"base-img", "guest-init"}, f \in FilesOpts, r \in RunOpts}

JobName(k) == W \o <<"-">> \o <<"j" , ToString(k)>>
JobArg(k) == <<"j", ToString(k)>>
JobVariants == {"inherit", "own", "bare", "init"}
VariantNo(v) == CASE v = "inherit" -> 1 [] v = "own" -> 2 [] v = "bare" -> 3 [] v = "init" -> 4

\* Job k of the workload: it inherits the workload's binary, or builds its own;
\* its image is layered on the workload's image when that exists.
JobCfg(k, v, parentImg) ==
    LET n == JobName(k)
        base == IF parentImg THEN WImg ELSE BrImg
    IN  CASE v = "inherit" ->
               Config(n, BaseKeys \cup {"img", "base-img"}, WBin, n \o <<".img">>, base, <<>>, NoRunSpec, <<>>)
          [] v = "own" ->
               Config(n, BaseKeys \cup {"img", "base-img", "linux-config"}, n \o <<"-bin">>,
                      n \o <<".img">>, base, <<>>, NoRunSpec, <<>>)
          [] v = "bare" ->
               Config(n, BaseKeys \cup {"linux-config"}, n \o <<"-bin">>, NoVal, NoVal, <<>>, NoRunSpec, <<>>)
          [] v = "init" ->
               Config(n, BaseKeys \cup {"img", "base-img", "guest-init"}, n \o <<"-bin">>,
                      n \o <<".img">>, BrImg, <<>>, NoRunSpec, <<>>)

\* The jobs are alike up to their names, so their variants are listed in one order.
JobLists ==
    UNION {{vs \in [1..n -> JobVariants] :
              \A i \in 1..n, j \in 1..n : i < j => VariantNo(vs[i]) <= VariantNo(vs[j])} :
           n \in 0..MaxJobs}

GraphConfigs ==
    {Config(W, BaseKeys \cup lk \cup ik \cup (IF vs = <<>> THEN {} ELSE {"jobs"}),
            WBin, WImg, BrImg, <<>>, NoRunSpec,
            [i \in 1..Len(vs) |-> JobCfg(i, vs[i], "img" \in ik)]) :
        lk \in {{}, {"linux-config"}},
        ik \in {{}, {"img", "base-img"}, {"img", "base-img", "guest-init"}},
        vs \in JobLists}
    \cup
    {Config(W, BaseKeys \cup {"host-init", "img", "base-img"}, WBin, WImg, BrImg, <<>>, NoRunSpec, <<>>)}

UCfg == Config(U, BaseKeys \cup {"img", "base-img"}, <<"u-bin">>, <<"u.img">>, BrImg, <<>>, NoRunSpec, <<>>)

CatalogOf(w) ==
    [p \in distros \cup {TargetPath, U \o <<".json">>} |->
        IF p \in distros THEN BrCfg ELSE IF p = TargetPath THEN w ELSE UCfg]

JobArgs(w) ==
    {All} \cup {JobArg(k) : k \in 1..Len(w.jobs)} \cup (IF w.jobs = <<>> THEN {JobArg(1)} ELSE {})

Flat(c) == <<c>> \o (IF Has(c, "jobs") THEN c.jobs ELSE <<>>)
AllConfigs(cat) == UNION {Range(Flat(cat[p])) : p \in DOMAIN cat}
\* the configuration of the catalog (a workload or one of its jobs) named n
CfgByName(cat, n) ==
    LET Named(c) == c.name = n
        p == CHOOSE q \in DOMAIN cat : SelectSeq(Flat(cat[q]), Named) # <<>>
    IN  Head(SelectSeq(Flat(cat[p]), Named))

\* The scripts a catalog names, any of which may be missing on the host.
Scripts(w) ==
    (IF \E c \in Range(Flat(w)) : Has(c, "guest-init") THEN {InitSh} ELSE {})
      \cup (IF Has(w, "runSpec") /\ w.runSpec.path # NoVal THEN {RunSh} ELSE {})

\* The host before the first invocation: the sources exist, but for the missing
\* scripts; a binary without 'linux-config' was built beforehand and an image
\* without 'base-img' exists already; no other artifact exists.
InitialFs(cat, missing) ==
    LET cs == AllConfigs(cat)
        srcs == {LinuxCfg, Motd, DirA, DirSubB, HostInitSh, InitSh, RunSh}
                  \cup {c.cfgFile : c \in cs}
        pre == {c.bin : c \in {x \in cs : ~Has(x, "linux-config") /\ x.bin # NoVal}}
                 \cup {c.img : c \in {x \in cs : Has(x, "img") /\ ~Has(x, "base-img") /\ x.bin # NoVal}}
    IN  [p \in (srcs \cup pre) \ missing |-> 1]

Init ==
    /\ \E w \in ImageConfigs \cup GraphConfigs :
         /\ catalog = CatalogOf(w)
         /\ \E i \in (IF w \in ImageConfigs THEN {FALSE} ELSE BOOLEAN), j \in JobArgs(w) :
              argv = [command |-> "build", initramfs |-> i, job |-> j]
         /\ \E missing \in SUBSET Scripts(w) : fs = InitialFs(CatalogOf(w), missing)
    /\ cfgs = EmptyFn
    /\ job = NoVal
    /\ boot = EmptyFn
    /\ mounted = {}
    /\ db = EmptyFn
    /\ workloads = <<>>
    /\ selected = <<>>
    /\ finished = {}
    /\ cur = NoVal
    /\ frame = NoFrame
    /\ pc = "main"
    /\ err = ""
    /\ log = <<>>
    /\ run = 1

\* ------------------------------------------------------------------------
\* main and handleBuild
\* ------------------------------------------------------------------------
AddKey(c, k) == [c EXCEPT !.keys = @ \cup {k}]

\* the flag set on the target alone
pushInitramfsParentOnly(cat) ==
    [cat EXCEPT ![TargetPath] = AddKey(cat[TargetPath], "initramfs")]

\* lines 67-71: the flag is set on the target and on each of its jobs
pushInitramfs(cat) ==
    LET t == cat[TargetPath]
        js == IF Has(t, "jobs") THEN [i \in 1..Len(t.jobs) |-> AddKey(t.jobs[i], "initramfs")]
              ELSE t.jobs
    IN  [cat EXCEPT ![TargetPath] = [AddKey(t, "initramfs") EXCEPT !.jobs = js]]

\* lines 73-78
jobName(cat, j) ==
    IF j # All /\ Has(cat[TargetPath], "jobs") THEN cat[TargetPath].name \o <<"-">> \o j ELSE j

\* lines 62-80: load the configurations, push the flag, name the job
Main ==
    /\ pc = "main"
    /\ cfgs' = IF argv.initramfs THEN pushInitramfs(catalog) ELSE catalog
    /\ job' = jobName(catalog, argv.job)
    /\ pc' = IF argv.command = "build" THEN "handleBuild" ELSE "handleLaunch"
    /\ UNCHANGED <<catalog, argv, fs, boot, mounted, db, workloads, selected, finished,
                   cur, frame, err, log, run>>

\* lines 223-239: the jobs whose targets are requested
jobsToBuild(config) ==
    IF ~Has(config, "jobs") THEN <<>>
    ELSE IF job = All THEN config.jobs
    ELSE LET Named(c) == c.name = job IN SelectSeq(config.jobs, Named)

\* line 233: config['jobs'][args.job] of a job the configuration does not have
jobKeyError(config) ==
    Has(config, "jobs") /\ job # All /\ \A i \in 1..Len(config.jobs) : config.jobs[i].name # job

\* lines 215-239
binList(config) ==
    LET Bins(c) == <<c.bin>> \o (IF Has(c, "initramfs") THEN <<c.bin \o <<"-initramfs">>>> ELSE <<>>)
        js == jobsToBuild(config)
    IN  Bins(config) \o Concat([i \in 1..Len(js) |-> Bins(js[i])])

imgList(config) ==
    LET Imgs(c) == IF Has(c, "img") THEN <<c.img>> ELSE <<>>
        js == jobsToBuild(config)
    IN  Imgs(config) \o Concat([i \in 1..Len(js) |-> Imgs(js[i])])

Raise(e) ==
    /\ pc' = "raised"
    /\ err' = e

\* lines 210-239: the rule set, the host-init scripts, the targets to build.
\* hostOk: whether every host-init script that is run exits with 0.
HandleBuild ==
    /\ pc = "handleBuild"
    /\ LET g == buildDepGraph(cfgs)
           config == cfgs[TargetPath]
           built == <<config>> \o jobsToBuild(config)
           WithHost(c) == Has(c, "host-init")
           hosts == SelectSeq(built, WithHost)
       IN  \E hostOk \in (IF hosts = <<>> THEN {TRUE} ELSE BOOLEAN) :
             /\ workloads' = g.rules
             /\ IF g.err \/ jobKeyError(config)
                THEN Raise("KeyError") /\ UNCHANGED <<selected, log>>
                ELSE IF \E i \in 1..Len(hosts) : ~exists(hosts[i].hostInit)
                THEN Raise("ValueError") /\ UNCHANGED <<selected, log>>
                ELSE IF ~hostOk
                THEN Raise("CalledProcessError") /\ UNCHANGED <<selected, log>>
                ELSE /\ selected' = binList(config) \o imgList(config)
                     /\ log' = log \o [i \in 1..Len(hosts) |-> Ev("host-init", hosts[i].name, hosts[i].hostInit)]
                     /\ pc' = "doit"
                     /\ err' = err
    /\ UNCHANGED <<catalog, argv, cfgs, job, fs, boot, mounted, db, finished, cur, frame, run>>

\* ------------------------------------------------------------------------
\* doit: DoitMain(loader).run(binList + imgList), line 242.
\* ------------------------------------------------------------------------
taskNames == [i \in 1..Len(workloads) |-> workloads[i].name]
RuleOf(t) == workloads[CHOOSE i \in 1..Len(workloads) : workloads[i].name = t]

\* doit refuses a task list before it runs anything: two tasks of one name (or
\* one target), a task_dep that names no task, a selected name that is no task.
invalidTasks ==
    \/ \E i, j \in 1..Len(workloads) : i < j /\ workloads[i].name = workloads[j].name
    \/ \E i \in 1..Len(workloads) : \E d \in Range(workloads[i].task_dep) : d \notin Range(taskNames)
    \/ \E t \in Range(selected) : t \notin Range(taskNames)

\* The tasks a task waits for: its task_dep, then every file_dep that is the
\* target of another task (doit's implicit dependency).
taskDeps(r) ==
    LET IsTarget(f) == f \in Range(taskNames) /\ f # r.name
    IN  r.task_dep \o SelectSeq(r.file_dep, IsTarget)

\* a selected task taken without a look at what it waits for
nextTaskNoDeps(t) == t

\* The task doit takes next: the first selected task it is not through with, or
\* the first such task among those it waits for (depth first).
RECURSIVE nextTask(_)
nextTask(t) ==
    LET Pending(d) == d \notin finished
        pend == SelectSeq(taskDeps(RuleOf(t)), Pending)
    IN  IF pend = <<>> THEN t ELSE nextTask(Head(pend))

\* the result of doit's run not looked at
handleRetIgnored(ret) == pc' = "done" /\ err' = err

\* lines 242-244: what handleBuild does with the result of doit's run
handleRet(ret) ==
    IF ret # 0 THEN Raise("RuntimeError") ELSE pc' = "done" /\ err' = err

\* line 242 -> 244: doit ends with a nonzero result without running anything
DoitLoad ==
    /\ pc = "doit"
    /\ IF invalidTasks THEN handleRet(3) ELSE pc' = "dispatch" /\ err' = err
    /\ UNCHANGED <<catalog, argv, cfgs, job, fs, boot, mounted, db, workloads, selected,
                   finished, cur, frame, log, run>>

\* lines 94-99: make -q in config['linux-src'], whose exit status is retcode
checkLinuxUpToDate(retcode) == IF retcode = 0 THEN TRUE ELSE FALSE

\* the distribution's own "is this already built" check
upToDate(config) == exists(config.img)

\* doit's dependency check of a task whose uptodate callable returned utd
Status(r, utd) ==
    LET fdeps == Range(r.file_dep)
        saved == Get(db, r.name, {})
    IN  IF r.uptodate # "none" /\ ~utd THEN "run"
        ELSE IF fdeps = {} /\ r.uptodate = "none" THEN "run"
        ELSE IF \E t \in Range(r.targets) : ~exists(t) THEN "run"
        ELSE IF saved # {} /\ {x[1] : x \in saved} # fdeps THEN "run"
        ELSE IF \E d \in fdeps : ~exists(d) THEN "error"
        ELSE IF \E d \in fdeps : <<d, fs[d]>> \notin saved THEN "run"
        ELSE "up-to-date"

Entry(fn) ==
    CASE fn = "makeBin" -> "makeBin"
      [] fn = "buildBaseImage" -> "buildBaseImage"
      [] fn = "makeImage" -> "mi_base"

\* The task's action raised: doit stops, run() returns nonzero, line 244 raises.
TaskFailsAfter(evs, what) ==
    /\ log' = log \o evs \o <<Ev("fail", cur, <<what>>)>>
    /\ handleRet(1)

TaskFails(what) == TaskFailsAfter(<<>>, what)

\* the exit statuses of make -q: up to date, not up to date, make's own error
MakeQuery == {0, 1, 2}

\* doit takes the next task and checks whether it is up to date.  An exception
\* of the uptodate callable (line 95: KeyError of config['linux-src'], OSError
\* of sp.call when make or the directory is missing) is a failure of the task.
DoitSelect ==
    /\ pc = "dispatch"
    /\ \E s \in {selected[i] : i \in 1..Len(selected)} :
         /\ s \notin finished
         /\ \A i \in 1..Len(selected) :
              selected[i] \notin finished => \E k \in 1..i : selected[k] = s
         /\ LET t == nextTask(s)
                r == RuleOf(t)
                c == CfgByName(cfgs, r.cfg)
                linux == r.uptodate = "checkLinuxUpToDate"
                keyErr == linux /\ ~Has(c, "linux-src")
            IN  \E retcode \in (IF linux /\ ~keyErr THEN MakeQuery ELSE {0}),
                   osErr \in (IF linux /\ ~keyErr THEN BOOLEAN ELSE {FALSE}) :
                  LET utd == IF r.uptodate = "upToDate" THEN upToDate(c)
                             ELSE checkLinuxUpToDate(retcode)
                      st == IF keyErr \/ osErr THEN "raise" ELSE Status(r, utd)
                  IN  CASE st = "run" ->
                             /\ cur' = t
                             /\ log' = Append(log, Ev("start", t, <<r.fn>>))
                             /\ pc' = Entry(r.fn)
                             /\ UNCHANGED <<finished, err>>
                        [] st = "up-to-date" ->
                             /\ finished' = finished \cup {t}
                             /\ log' = Append(log, Ev("skip", t, <<r.fn>>))
                             /\ UNCHANGED <<cur, pc, err>>
                        [] st = "error" ->
                             /\ log' = Append(log, Ev("fail", t, <<"dependency">>))
                             /\ handleRet(1)
                             /\ UNCHANGED <<cur, finished>>
                        [] st = "raise" ->
                             /\ log' = Append(log, Ev("fail", t, <<"uptodate">>))
                             /\ handleRet(1)
                             /\ UNCHANGED <<cur, finished>>
    /\ UNCHANGED <<catalog, argv, cfgs, job, fs, boot, mounted, db, workloads, selected, frame, run>>

\* Every selected task is through: run() returns 0 and handleBuild returns.
DoitDone ==
    /\ pc = "dispatch"
    /\ \A i \in 1..Len(selected) : selected[i] \in finished
    /\ handleRet(0)
    /\ UNCHANGED <<catalog, argv, cfgs, job, fs, boot, mounted, db, workloads, selected,
                   finished, cur, frame, log, run>>

\* a task that has run is not remembered as run
TaskDoneForgotten ==
    /\ pc = "taskDone"
    /\ db' = Put(db, cur, {<<d, Get(fs, d, 0)>> : d \in Range(RuleOf(cur).file_dep)})
    /\ log' = Append(log, Ev("success", cur, <<RuleOf(cur).fn>>))
    /\ cur' = NoVal
    /\ pc' = "dispatch"
    /\ UNCHANGED <<catalog, argv, cfgs, job, fs, boot, mounted, workloads, selected, finished,
                   frame, err, run>>

\* The action returned: doit saves the state of the task's file_dep.
TaskDone ==
    /\ pc = "taskDone"
    /\ db' = Put(db, cur, {<<d, Get(fs, d, 0)>> : d \in Range(RuleOf(cur).file_dep)})
    /\ finished' = finished \cup {cur}
    /\ log' = Append(log, Ev("success", cur, <<RuleOf(cur).fn>>))
    /\ cur' = NoVal
    /\ pc' = "dispatch"
    /\ UNCHANGED <<catalog, argv, cfgs, job, fs, boot, mounted, workloads, selected, frame, err, run>>

\* ------------------------------------------------------------------------
\* The actions of the binary rules and of the base distribution's rule.
\* ------------------------------------------------------------------------
\* lines 318-347; ok: whether the kernel and bbl builds exit with 0
MakeBin ==
    /\ pc = "makeBin"
    /\ LET r == RuleOf(cur)
           c == CfgByName(cfgs, r.cfg)
           target == IF r.initramfs THEN c.bin \o <<"-initramfs">> ELSE c.bin
       IN  IF ~Has(c, "linux-config")
           THEN pc' = "taskDone" /\ UNCHANGED <<fs, log, err>>
           ELSE IF ~exists(c.linuxConfig)
           THEN TaskFails("makeBin") /\ UNCHANGED fs
           ELSE \E ok \in (IF r.initramfs /\ ~exists(c.img) THEN {FALSE} ELSE BOOLEAN) :
                  IF ok
                  THEN /\ fs' = Touch(Touch(fs, KernelDotConfig), target)
                       /\ pc' = "taskDone"
                       /\ UNCHANGED <<log, err>>
                  ELSE /\ fs' = Touch(fs, KernelDotConfig)
                       /\ TaskFails("makeBin")
    /\ UNCHANGED <<catalog, argv, cfgs, job, boot, mounted, db, workloads, selected,
                   finished, cur, frame, run>>

\* line 185: the distribution's builder produces its image, or fails
BuildBaseImage ==
    /\ pc = "buildBaseImage"
    /\ \E ok \in BOOLEAN :
         IF ok
         THEN /\ fs' = Touch(fs, RuleOf(cur).name)
              /\ pc' = "taskDone"
              /\ UNCHANGED <<log, err>>
         ELSE TaskFails("buildBaseImage") /\ UNCHANGED fs
    /\ UNCHANGED <<catalog, argv, cfgs, job, boot, mounted, db, workloads, selected,
                   finished, cur, frame, run>>

\* ------------------------------------------------------------------------
\* makeImage, applyOverlay, copyImgFiles
\* ------------------------------------------------------------------------
Mnt == <<"mnt">>

\* builder.generateBootScriptOverlay(script): a directory which, copied onto the
\* root of an image, makes the image run script at boot (none for None).
generateBootScriptOverlay(script) == <<"overlay">> \o script

isOverlayGlob(src) == Len(src) >= 2 /\ src[1] = "overlay" /\ src[Len(src)] = "/*"
scriptOfGlob(src) == SubSeq(src, 2, Len(src) - 1)

\* line 394: the one FileSpec of an overlay
overlayFiles(overlay) == <<FileSpec(overlay \o <<"/*">>, <<"/">>)>>

\* A call of copyImgFiles(img, files, direction) that returns to ret.
Call(img, files, direction, ret) ==
    /\ frame' = [img |-> img, files |-> files, direction |-> direction, i |-> 1,
                 ret |-> ret, err |-> ""]
    /\ pc' = "cif_mount"

\* An exception leaves the action that is running.
ThrowAfter(evs, what) ==
    IF cur # NoVal THEN TaskFailsAfter(evs, what) ELSE Raise(what) /\ log' = log \o evs

Throw(what) == ThrowAfter(<<>>, what)

TheConfig == CfgByName(cfgs, RuleOf(cur).cfg)

\* the run script's overlay applied before the init script is cleared
afterRunBeforeClear(phase) ==
    CASE phase = "mi_base" -> "mi_files"
      [] phase = "mi_files" -> "mi_init"
      [] phase = "mi_init" -> "mi_qemu"
      [] phase = "mi_qemu" -> "mi_run"
      [] phase = "mi_run" -> "mi_clear"
      [] phase = "mi_clear" -> "taskDone"

\* the init script cleared before the emulator has run it
afterClearBeforeBoot(phase) ==
    CASE phase = "mi_base" -> "mi_files"
      [] phase = "mi_files" -> "mi_init"
      [] phase = "mi_init" -> "mi_clear"
      [] phase = "mi_clear" -> "mi_qemu"
      [] phase = "mi_qemu" -> "mi_run"
      [] phase = "mi_run" -> "taskDone"

\* the 'files' copied only after the guest-init boot
afterFilesAfterBoot(phase) ==
    CASE phase = "mi_base" -> "mi_init"
      [] phase = "mi_init" -> "mi_qemu"
      [] phase = "mi_qemu" -> "mi_clear"
      [] phase = "mi_clear" -> "mi_files"
      [] phase = "mi_files" -> "mi_run"
      [] phase = "mi_run" -> "taskDone"

\* the 'files' of the configuration never copied
afterBaseSkipFiles(phase) ==
    CASE phase = "mi_base" -> "mi_init"
      [] phase = "mi_files" -> "mi_init"
      [] phase = "mi_init" -> "mi_qemu"
      [] phase = "mi_qemu" -> "mi_clear"
      [] phase = "mi_clear" -> "mi_run"
      [] phase = "mi_run" -> "taskDone"

\* lines 349-388: the order of makeImage's statements
after(phase) ==
    CASE phase = "mi_base" -> "mi_files"
      [] phase = "mi_files" -> "mi_init"
      [] phase = "mi_init" -> "mi_qemu"
      [] phase = "mi_qemu" -> "mi_clear"
      [] phase = "mi_clear" -> "mi_run"
      [] phase = "mi_run" -> "taskDone"

\* the init script's overlay applied once more instead of the clearing one
clearOverlayInitAgain(config) == generateBootScriptOverlay(config.guestInit)

\* line 372: the overlay that clears the init script
clearOverlay(config) == generateBootScriptOverlay(NoVal)

\* the script taken for present without a look at the host
scriptMissingUnchecked(files, path) == FALSE

\* lines 362, 384: not os.path.exists(script), on the host as it is then
scriptMissing(files, path) == Get(files, path, 0) = 0

\* lines 352-353
MI_Base ==
    /\ pc = "mi_base"
    /\ LET config == TheConfig
       IN  IF ~Has(config, "base-img")
           THEN pc' = after("mi_base") /\ UNCHANGED <<fs, boot, log, err>>
           ELSE IF ~exists(config.baseImg)
           THEN Throw("copy") /\ UNCHANGED <<fs, boot>>
           ELSE /\ fs' = Touch(fs, config.img)
                /\ boot' = Put(boot, config.img, Get(boot, config.baseImg, NoVal))
                /\ log' = Append(log, Ev("copyBase", config.img, config.baseImg))
                /\ pc' = after("mi_base")
                /\ err' = err
    /\ UNCHANGED <<catalog, argv, cfgs, job, mounted, db, workloads, selected, finished,
                   cur, frame, run>>

\* lines 356-358
MI_Files ==
    /\ pc = "mi_files"
    /\ LET config == TheConfig
       IN  IF Has(config, "files")
           THEN Call(config.img, config.files, "in", after("mi_files"))
           ELSE pc' = after("mi_files") /\ frame' = frame
    /\ UNCHANGED <<catalog, argv, cfgs, job, fs, boot, mounted, db, workloads, selected,
                   finished, cur, err, log, run>>

\* lines 360-367
MI_Init ==
    /\ pc = "mi_init"
    /\ LET config == TheConfig
       IN  IF ~Has(config, "guest-init")
           THEN pc' = after("mi_clear") /\ UNCHANGED <<frame, log, err>>
           ELSE IF scriptMissing(fs, config.guestInit)
           THEN Throw("ValueError") /\ frame' = frame
           ELSE /\ Call(config.img, overlayFiles(generateBootScriptOverlay(config.guestInit)),
                        "in", after("mi_init"))
                /\ UNCHANGED <<log, err>>
    /\ UNCHANGED <<catalog, argv, cfgs, job, fs, boot, mounted, db, workloads, selected,
                   finished, cur, run>>

\* lines 368-369: the emulator boots config['bin'] on the image; ok: it exits with 0
MI_Qemu ==
    /\ pc = "mi_qemu"
    /\ LET config == TheConfig
       IN  \E ok \in (IF exists(config.bin) THEN BOOLEAN ELSE {FALSE}) :
             IF ok
             THEN /\ fs' = Touch(fs, config.img)
                  /\ log' = Append(log, Ev("qemu", config.img, <<"0">>))
                  /\ pc' = after("mi_qemu")
                  /\ err' = err
             ELSE ThrowAfter(<<Ev("qemu", config.img, <<"1">>)>>, "qemu") /\ fs' = fs
    /\ UNCHANGED <<catalog, argv, cfgs, job, boot, mounted, db, workloads, selected,
                   finished, cur, frame, run>>

\* lines 371-373
MI_Clear ==
    /\ pc = "mi_clear"
    /\ Call(TheConfig.img, overlayFiles(clearOverlay(TheConfig)), "in", after("mi_clear"))
    /\ UNCHANGED <<catalog, argv, cfgs, job, fs, boot, mounted, db, workloads, selected,
                   finished, cur, err, log, run>>

\* lines 375-388; genRunScript writes the script that wraps the command
MI_Run ==
    /\ pc = "mi_run"
    /\ LET config == TheConfig
           spec == config.runSpec
           scriptPath == IF spec.command # NoVal THEN GenSh ELSE spec.path
           fs1 == IF spec.command # NoVal THEN Touch(fs, GenSh) ELSE fs
       IN  IF ~Has(config, "runSpec")
           THEN pc' = after("mi_run") /\ UNCHANGED <<fs, frame, log, err>>
           ELSE /\ fs' = fs1
                /\ IF scriptMissing(fs1, scriptPath)
                   THEN Throw("ValueError") /\ frame' = frame
                   ELSE /\ Call(config.img, overlayFiles(generateBootScriptOverlay(scriptPath)),
                                "in", after("mi_run"))
                        /\ UNCHANGED <<log, err>>
    /\ UNCHANGED <<catalog, argv, cfgs, job, boot, mounted, db, workloads, selected,
                   finished, cur, run>>

\* lines 403-411: mkdir mnt if need be, then mount; ok: mount exits with 0
CIF_Mount ==
    /\ pc = "cif_mount"
    /\ \E ok \in (IF exists(frame.img) THEN BOOLEAN ELSE {FALSE}) :
         /\ fs' = IF exists(Mnt) THEN fs ELSE Touch(fs, Mnt)
         /\ IF ok
            THEN /\ mounted' = mounted \cup {frame.img}
                 /\ log' = Append(log, Ev("mount", frame.img, NoVal))
                 /\ pc' = IF frame.files = <<>> THEN "cif_umount" ELSE "cif_copy"
                 /\ err' = err
            ELSE Throw("mount") /\ mounted' = mounted
    /\ UNCHANGED <<catalog, argv, cfgs, job, boot, db, workloads, selected, finished,
                   cur, frame, run>>

\* no try/finally: the exception of a copy leaves copyImgFiles at once
copyFailedNoFinally(e) ==
    /\ Throw(e)
    /\ frame' = frame

\* lines 412, 426: a copy of the loop failed with e; the finally clause runs
\* before e goes on
copyFailed(e) ==
    /\ frame' = [frame EXCEPT !.err = e]
    /\ pc' = "cif_umount"
    /\ UNCHANGED <<log, err>>

\* lines 413-425: one turn of the loop; ok: rsync exits with 0
CIF_Copy ==
    /\ pc = "cif_copy"
    /\ LET f == frame.files[frame.i]
           last == frame.i = Len(frame.files)
       IN  \E ok \in (IF frame.direction \in {"in", "out"} THEN BOOLEAN ELSE {FALSE}) :
             IF ok
             THEN /\ fs' = IF frame.direction = "in" THEN Touch(fs, frame.img) ELSE Touch(fs, f.dst)
                  /\ boot' = IF frame.direction = "in" /\ isOverlayGlob(f.src)
                             THEN Put(boot, frame.img, scriptOfGlob(f.src)) ELSE boot
                  /\ log' = Append(log, Ev(IF frame.direction = "in" THEN "rsync" ELSE "rsync-out",
                                           frame.img, f.src))
                  /\ frame' = [frame EXCEPT !.i = @ + 1]
                  /\ pc' = IF last THEN "cif_umount" ELSE "cif_copy"
                  /\ err' = err
             ELSE /\ copyFailed(IF frame.direction \in {"in", "out"} THEN "rsync" ELSE "direction")
                  /\ UNCHANGED <<fs, boot>>
    /\ UNCHANGED <<catalog, argv, cfgs, job, mounted, db, workloads, selected, finished,
                   cur, run>>

\* lines 426-429: the finally clause; ok: umount exits with 0.  Then the call
\* returns, or the exception of the loop goes on to the caller.
CIF_Umount ==
    /\ pc = "cif_umount"
    /\ \E ok \in BOOLEAN :
         IF ~ok
         THEN Throw("umount") /\ UNCHANGED <<mounted, frame>>
         ELSE /\ mounted' = mounted \ {frame.img}
              /\ frame' = NoFrame
              /\ IF frame.err # ""
                 THEN ThrowAfter(<<Ev("umount", frame.img, NoVal)>>, frame.err)
                 ELSE /\ log' = Append(log, Ev("umount", frame.img, NoVal))
                      /\ pc' = frame.ret
                      /\ err' = err
    /\ UNCHANGED <<catalog, argv, cfgs, job, fs, boot, db, workloads, selected, finished,
                   cur, run>>

\* ------------------------------------------------------------------------
\* handleLaunch (on qemu: the command line has no --spike)
\* ------------------------------------------------------------------------
ResDir == <<"res">>

\* lines 284-290
launchConfig ==
    LET baseConfig == cfgs[TargetPath]
        Named(c) == c.name = job
    IN  IF Has(baseConfig, "jobs") /\ job # All
        THEN Head(SelectSeq(baseConfig.jobs, Named))
        ELSE baseConfig

\* lines 282-309: the result directory, the emulator, then the outputs; ok: the
\* emulator's pipeline exits with 0
HandleLaunch ==
    /\ pc = "handleLaunch"
    /\ IF jobKeyError(cfgs[TargetPath])
       THEN Raise("KeyError") /\ UNCHANGED <<fs, frame, log>>
       ELSE LET config == launchConfig
                runResDir == ResDir \o <<"/">> \o config.name
                outputSpec == [i \in 1..Len(config.outputs) |->
                                 FileSpec(config.outputs[i], runResDir \o <<"/">>)]
            IN  IF exists(runResDir)
                THEN Raise("FileExistsError") /\ UNCHANGED <<fs, frame, log>>
                ELSE /\ fs' = Touch(fs, runResDir)
                     /\ \E ok \in BOOLEAN :
                          IF ~ok
                          THEN Raise("CalledProcessError") /\ UNCHANGED <<frame, log>>
                          ELSE /\ log' = Append(log, Ev("launch", config.bin, Get(boot, config.img, NoVal)))
                               /\ err' = err
                               /\ IF Has(config, "outputs")
                                  THEN Call(config.img, outputSpec, "out", "done")
                                  ELSE pc' = "done" /\ frame' = frame
    /\ UNCHANGED <<catalog, argv, cfgs, job, boot, mounted, db, workloads, selected,
                   finished, cur, run>>

\* ------------------------------------------------------------------------
\* The tool is run again on the same workload directory after a build that
\* succeeded: a new process, with the files and doit's dependency file as the
\* build left them.
\* ------------------------------------------------------------------------
NextInvocation ==
    /\ pc = "done"
    /\ argv.command = "build"
    /\ run < MaxRuns
    /\ run' = run + 1
    /\ \E c \in {"build", "launch"} : argv' = [argv EXCEPT !.command = c]
    /\ pc' = "main"
    /\ cfgs' = EmptyFn
    /\ job' = NoVal
    /\ workloads' = <<>>
    /\ selected' = <<>>
    /\ finished' = {}
    /\ log' = <<>>
    /\ UNCHANGED <<catalog, fs, boot, mounted, db, cur, frame, err>>

Next ==
    \/ Main
    \/ HandleBuild
    \/ DoitLoad
    \/ DoitSelect
    \/ DoitDone
    \/ TaskDone
    \/ MakeBin
    \/ BuildBaseImage
    \/ MI_Base
    \/ MI_Files
    \/ MI_Init
    \/ MI_Qemu
    \/ MI_Clear
    \/ MI_Run
    \/ CIF_Mount
    \/ CIF_Copy
    \/ CIF_Umount
    \/ HandleLaunch
    \/ NextInvocation

Spec == Init /\ [][Next]_vars

\* The artifacts that the action of rule r for configuration c reads: makeImage
\* copies base-img (line 353) and boots bin for guest-init (line 369); makeBin
\* packs img into the initramfs when it builds at all (lines 322-328).
reads(r, c) ==
    CASE r.fn = "makeImage" ->
           (IF Has(c, "base-img") THEN {c.baseImg} ELSE {})
             \cup (IF Has(c, "guest-init") THEN {c.bin} ELSE {})
      [] r.fn = "makeBin" /\ r.initramfs /\ Has(c, "linux-config") -> {c.img}
      [] OTHER -> {}

\* ------------------------------------------------------------------------
\* copyImgFiles called on its own, by a user of the module, with any file list
\* and any direction, on an image that exists or not.
\* ------------------------------------------------------------------------
Directions == {"in", "out", "sideways"}

InitCopy ==
    /\ \E fl \in FileLists, d \in Directions :
         argv = [command |-> "copyImgFiles", img |-> WImg, files |-> fl, direction |-> d]
    /\ \E present \in SUBSET {WImg} : fs = [p \in {Motd, DirA, DirSubB} \cup present |-> 1]
    /\ catalog = EmptyFn
    /\ cfgs = EmptyFn
    /\ job = NoVal
    /\ boot = EmptyFn
    /\ mounted = {}
    /\ db = EmptyFn
    /\ workloads = <<>>
    /\ selected = <<>>
    /\ finished = {}
    /\ cur = NoVal
    /\ frame = NoFrame
    /\ pc = "copyImgFiles"
    /\ err = ""
    /\ log = <<>>
    /\ run = 1

\* line 400: the call
CopyImgFiles ==
    /\ pc = "copyImgFiles"
    /\ Call(argv.img, argv.files, argv.direction, "done")
    /\ UNCHANGED <<catalog, argv, cfgs, job, fs, boot, mounted, db, workloads, selected,
                   finished, cur, err, log, run>>

NextCopy ==
    \/ CopyImgFiles
    \/ CIF_Mount
    \/ CIF_Copy
    \/ CIF_Umount

SpecCopy == InitCopy /\ [][NextCopy]_vars

\* ------------------------------------------------------------------------
\* addDep called on one configuration with an image, for every 'files' list
\* over regular files, directories and links to files and to directories.
\* ------------------------------------------------------------------------
DepPool ==
    FilePool \cup {FileSpec(LnkDir, <<"/l">>), FileSpec(DirSub, <<"/sub">>), FileSpec(DirS, <<"/s">>)}
DepLists == UNION {[1..k -> DepPool] : k \in 0..MaxFiles}

InitDeps ==
    /\ \E fl \in DepLists, opt \in SUBSET {"base-img", "guest-init"} :
         catalog = [p \in {TargetPath} |->
                      Config(W, BaseKeys \cup {"img", "files"} \cup opt, WBin, WImg, BrImg,
                             fl, NoRunSpec, <<>>)]
    /\ argv = [command |-> "addDep"]
    /\ cfgs = catalog
    /\ job = NoVal
    /\ fs = EmptyFn
    /\ boot = EmptyFn
    /\ mounted = {}
    /\ db = EmptyFn
    /\ workloads = <<>>
    /\ selected = <<>>
    /\ finished = {}
    /\ cur = NoVal
    /\ frame = NoFrame
    /\ pc = "addDep"
    /\ err = ""
    /\ log = <<>>
    /\ run = 1

\* lines 101-170: addDep(loader, config) appends the configuration's rules
AddDep ==
    /\ pc = "addDep"
    /\ workloads' = workloads \o addDep(cfgs[TargetPath]).rules
    /\ pc' = "done"
    /\ UNCHANGED <<catalog, argv, cfgs, job, fs, boot, mounted, db, selected, finished,
                   cur, frame, err, log, run>>

NextDeps == AddDep

SpecDeps == InitDeps /\ [][NextDeps]_vars

\* ------------------------------------------------------------------------
\* Properties
\* ------------------------------------------------------------------------
Last(s) == s[Len(s)]

\* the events of the task that started last
TaskLog ==
    LET k == CHOOSE i \in 1..Len(log) :
                 log[i].ev = "start" /\ \A j \in (i+1)..Len(log) : log[j].ev # "start"
    IN  SubSeq(log, k, Len(log))

IsOverlayEv(e) == e.ev = "rsync" /\ isOverlayGlob(e.arg)
\* the scripts of the boot overlays copied onto an image, in order
OverlayScripts(evs) ==
    LET ov == SelectSeq(evs, IsOverlayEv) IN [i \in 1..Len(ov) |-> scriptOfGlob(ov[i].arg)]
Count(evs, ev) == Cardinality({i \in 1..Len(evs) : evs[i].ev = ev})

\* makeImage has returned to doit without an exception
MakeImageReturned == pc = "taskDone" /\ RuleOf(cur).fn = "makeImage"

\* the exception that ended the invocation: the one of the failed action, or
\* the one that main let through
lastError == IF log # <<>> /\ Last(log).ev = "fail" THEN Last(log).arg[1] ELSE err

\* C1: when makeImage returns for a configuration with guest-init and without
\* runSpec, the last boot overlay copied onto the image is the clearing one
\* and the image's boot action is cleared (not the init script), the init
\* script's overlay was copied before it and the emulator was booted once.
C1_GuestInitCleared ==
    (MakeImageReturned /\ Has(TheConfig, "guest-init") /\ ~Has(TheConfig, "runSpec")) =>
        LET ov == OverlayScripts(TaskLog)
        IN  /\ ov # <<>>
            /\ Last(ov) = NoVal
            /\ TheConfig.img \in DOMAIN boot
            /\ boot[TheConfig.img] = NoVal
            /\ boot[TheConfig.img] # TheConfig.guestInit
            /\ \E i \in 1..Len(ov) : ov[i] = TheConfig.guestInit
            /\ Count(TaskLog, "qemu") = 1

C1_Witness ==
    /\ MakeImageReturned /\ Has(TheConfig, "guest-init") /\ ~Has(TheConfig, "runSpec")
    /\ Count(TaskLog, "qemu") = 1

\* the script that the runSpec of a configuration resolves to (lines 377-382)
RunScriptOf(config) == IF config.runSpec.command # NoVal THEN GenSh ELSE config.runSpec.path

\* C2: when makeImage returns for a configuration with guest-init and runSpec,
\* the boot overlays copied onto the image were, in this order, the init
\* script's, the clearing one and the run script's, and the image's boot
\* action is the run script.
C2_RunScriptLast ==
    (MakeImageReturned /\ Has(TheConfig, "guest-init") /\ Has(TheConfig, "runSpec")) =>
        /\ OverlayScripts(TaskLog) = <<TheConfig.guestInit, NoVal, RunScriptOf(TheConfig)>>
        /\ TheConfig.img \in DOMAIN boot
        /\ boot[TheConfig.img] = RunScriptOf(TheConfig)
        /\ RunScriptOf(TheConfig) \notin {NoVal, TheConfig.guestInit}

C2_Witness ==
    /\ MakeImageReturned /\ Has(TheConfig, "guest-init") /\ Has(TheConfig, "runSpec")
    /\ Len(OverlayScripts(TaskLog)) = 3

InCopyImgFiles == pc \in {"cif_mount", "cif_copy", "cif_umount"}

\* C3: when a copy of copyImgFiles fails, the image is unmounted before the
\* exception reaches the caller; and whenever copyImgFiles has been left by a
\* return or by the exception of a copy, no image is mounted.
C3_UnmountedOnExit ==
    /\ (pc = "raised" /\ lastError \in {"rsync", "direction"}) =>
          LET evs == IF Last(log).ev = "fail" THEN SubSeq(log, 1, Len(log) - 1) ELSE log
          IN  mounted = {} /\ Last(evs).ev = "umount"
    /\ (~InCopyImgFiles /\ ~(pc = "raised" /\ lastError \in {"umount"})) => mounted = {}

C3_Witness == pc = "raised" /\ lastError = "rsync" /\ mounted = {} /\ Count(log, "mount") > 0

Started(k) == log[k].ev = "start"
\* task d is through (run with success, or found up to date) before event k
DoneBefore(d, k) == \E j \in 1..(k-1) : log[j].what = d /\ log[j].ev \in {"success", "skip"}

\* C4: when the action of a rule starts, each of the rule's task dependencies
\* is through, and each action of such a dependency that was started in this
\* invocation has returned with success before.
C4_DepsFirst ==
    \A k \in 1..Len(log) : Started(k) =>
        \A d \in Range(RuleOf(log[k].what).task_dep) :
            /\ DoneBefore(d, k)
            /\ \A j \in 1..Len(log) : (Started(j) /\ log[j].what = d) =>
                  /\ j < k
                  /\ \E m \in (j+1)..(k-1) : log[m].what = d /\ log[m].ev = "success"

C4_Witness ==
    \E k \in 1..Len(log) :
        /\ Started(k)
        /\ \E d \in Range(RuleOf(log[k].what).task_dep) :
              \E j \in 1..(k-1) : log[j].what = d /\ log[j].ev = "success"

\* C5: in a build that follows a build that succeeded, with nothing changed in
\* between, no rule action is started.
C5_Idempotent ==
    (run >= 2 /\ argv.command = "build") => Count(log, "start") = 0

HasDuplicates(rules) ==
    Cardinality({rules[i].targets : i \in 1..Len(rules)}) < Len(rules)

\* the target paths that the configurations of a catalog name
PathsOf(c) ==
    IF c.bin = NoVal THEN (IF Has(c, "img") THEN <<c.img>> ELSE <<>>)
    ELSE <<c.bin>> \o (IF Has(c, "initramfs") THEN <<c.bin \o <<"-initramfs">>>> ELSE <<>>)
                   \o (IF Has(c, "img") THEN <<c.img>> ELSE <<>>)
CatalogPaths(cat) ==
    LET ps == SetToSeq(DOMAIN cat)
        PathsUnder(cs) == Concat([k \in 1..Len(cs) |-> PathsOf(cs[k])])
    IN  Concat([i \in 1..Len(ps) |-> PathsUnder(Flat(cat[ps[i]]))])
DistinctPaths(cat) ==
    LET ps == CatalogPaths(cat) IN Cardinality(Range(ps)) = Len(ps)

RulesBuilt == argv.command = "build" /\ pc \notin {"main", "handleBuild"} /\ err # "KeyError"

\* C6 as stated: the rule set of every catalog has no two rules of one target.
C6_Original == RulesBuilt => ~HasDuplicates(workloads)

\* C6, amended: the rule set has two rules of one target exactly when two
\* configurations of the catalog name the same target path; and then doit
\* refuses the rule set and no rule action is ever started.
C6_UniqueOrRejected ==
    RulesBuilt =>
        LET dup == HasDuplicates(workloads)
        IN  /\ dup <=> ~DistinctPaths(cfgs)
            /\ dup => (Count(log, "start") = 0 /\ pc \in {"doit", "raised"})

C6_Witness ==
    /\ RulesBuilt /\ HasDuplicates(workloads)
    /\ pc = "raised" /\ err = "RuntimeError"

HasRule(name, initramfs) ==
    \E i \in 1..Len(workloads) :
        /\ workloads[i].targets = <<name>>
        /\ workloads[i].fn = "makeBin"
        /\ workloads[i].initramfs = initramfs

JobsHaveBothRules ==
    \A i \in 1..Len(cfgs[TargetPath].jobs) :
        LET j == cfgs[TargetPath].jobs[i]
        IN  HasRule(j.bin, FALSE) /\ HasRule(j.bin \o <<"-initramfs">>, TRUE)

JobsFlagged ==
    \A i \in 1..Len(cfgs[TargetPath].jobs) : Has(cfgs[TargetPath].jobs[i], "initramfs")

InitramfsBuild == argv.command = "build" /\ argv.initramfs /\ pc \notin {"main", "handleBuild"}

C8_AtMostOnce ==
    \A i \in 1..Len(log) : Started(i) =>
        \A j \in (i+1)..Len(log) : Started(j) => log[i].what # log[j].what

\* a task that was run and that is reached on two paths: it is selected and
\* another task that ran waits for it, or two tasks that ran wait for it
C8_Witness ==
    /\ pc = "done"
    /\ \E k \in 1..Len(log) :
         /\ Started(k)
         /\ LET t == log[k].what
                waiting == {i \in 1..Len(log) : Started(i) /\ t \in Range(taskDeps(RuleOf(log[i].what)))}
            IN  \/ Cardinality(waiting) >= 2
                \/ (t \in Range(selected) /\ waiting # {})

\* an action that returned and that writes its target (makeBin writes nothing
\* without 'linux-config')
Produced(e) ==
    /\ e.ev = "success"
    /\ e.arg = <<"makeBin">> => Has(CfgByName(cfgs, RuleOf(e.what).cfg), "linux-config")

\* C9: an action that fails is the last thing the invocation does: nothing is
\* started after it, handleBuild raises RuntimeError, and the targets of the
\* actions that returned before are still there.
C9_AbortOnFailure ==
    \A k \in 1..Len(log) : log[k].ev = "fail" =>
        /\ k = Len(log)
        /\ pc = "raised"
        /\ err = "RuntimeError"
        /\ \A j \in 1..(k-1) : Produced(log[j]) => exists(log[j].what)

C9_Witness ==
    /\ pc = "raised" /\ log # <<>> /\ Last(log).ev = "fail"
    /\ \E i, j \in 1..Len(log) : i < j /\ Produced(log[i]) /\ Produced(log[j])

\* C10: when the emulator of the guest-init phase fails, makeImage is left
\* with the exception at once: the only boot overlay copied is the init
\* script's, which stays the image's boot action, and the image is not mounted.
C10_BootFailure ==
    \A k \in 1..Len(log) : (log[k].ev = "qemu" /\ log[k].arg # <<"0">>) =>
        /\ k + 1 = Len(log)
        /\ log[k+1].ev = "fail"
        /\ pc = "raised"
        /\ LET config == CfgByName(cfgs, RuleOf(log[k+1].what).cfg)
           IN  /\ OverlayScripts(TaskLog) = <<config.guestInit>>
               /\ config.img \in DOMAIN boot
               /\ boot[config.img] = config.guestInit
        /\ mounted = {}

C10_Witness == pc = "raised" /\ lastError = "qemu" /\ Count(log, "qemu") = 1

\* C11 as stated: the run is never ended by an error of a staleness predicate;
\* no task fails for the exception of its uptodate callable.
C11_PredicateErrorTolerated ==
    \A k \in 1..Len(log) : ~(log[k].ev = "fail" /\ log[k].arg = <<"uptodate">>)

\* the configuration of the task that failed last
FailedConfig == CfgByName(cfgs, RuleOf(Last(log).what).cfg)
MakeImageValueError ==
    /\ pc = "raised" /\ log # <<>>
    /\ Last(log).ev = "fail" /\ Last(log).arg = <<"ValueError">>

\* C12: every boot overlay copied onto an image is the clearing one or that of
\* a script that exists; makeImage gets past the guest-init (the runSpec) phase
\* only when the script exists; and when makeImage raises ValueError for a
\* missing guest-init script no overlay was copied and the emulator was not
\* started, when it raises it for a missing run script no run overlay was.
C12_MissingScriptFatal ==
    /\ \A k \in 1..Len(log) :
          (IsOverlayEv(log[k]) /\ scriptOfGlob(log[k].arg) # NoVal) => exists(scriptOfGlob(log[k].arg))
    /\ (cur # NoVal /\ pc \in {"mi_qemu", "mi_clear", "mi_run", "taskDone"}
           /\ RuleOf(cur).fn = "makeImage" /\ Has(TheConfig, "guest-init")) => exists(TheConfig.guestInit)
    /\ (MakeImageReturned /\ Has(TheConfig, "runSpec")) => exists(RunScriptOf(TheConfig))
    /\ MakeImageValueError =>
          IF Has(FailedConfig, "guest-init") /\ ~exists(FailedConfig.guestInit)
          THEN OverlayScripts(TaskLog) = <<>> /\ Count(TaskLog, "qemu") = 0
          ELSE /\ Has(FailedConfig, "runSpec") /\ ~exists(RunScriptOf(FailedConfig))
               /\ RunScriptOf(FailedConfig) \notin Range(OverlayScripts(TaskLog))

\* the run script is missing after the guest-init phase went through
C12_Witness ==
    /\ MakeImageValueError
    /\ Has(FailedConfig, "guest-init") /\ ~exists(RunScriptOf(FailedConfig))
    /\ OverlayScripts(TaskLog) = <<FailedConfig.guestInit, NoVal>>

\* a workload with a prebuilt binary and an image made of a base and files
PlainImage(c) ==
    /\ {"img", "base-img", "files"} \subseteq c.keys
    /\ c.keys \cap {"guest-init", "runSpec", "initramfs", "linux-config", "jobs"} = {}

\* what makeImage does for a configuration with base-img and files only
PlainImageLog(c) ==
    <<Ev("start", c.img, <<"makeImage">>), Ev("copyBase", c.img, c.baseImg),
      Ev("mount", c.img, NoVal)>>
      \o [i \in 1..Len(c.files) |-> Ev("rsync", c.img, c.files[i].src)]
      \o <<Ev("umount", c.img, NoVal)>>

\* C13: for a configuration with bin, img, base-img and files and nothing else,
\* the rules of the configuration are the binary rule and the image rule and no
\* other, as addDep emits them; when makeImage
\* returns it has copied the base image, then the files in one mount, with no
\* emulator and no boot overlay; and the binary and the kernel's .config are
\* as they were before the build.
C13_PlainImageBuild ==
    LET c == cfgs[TargetPath]
        Mine(r) == r.cfg = c.name
        mine == SelectSeq(workloads, Mine)
    IN  (argv.command = "build" /\ pc \notin {"main", "handleBuild"} /\ PlainImage(c)) =>
          /\ Len(mine) = 2
          /\ mine[1].targets = <<c.bin>> /\ mine[1].fn = "makeBin"
          /\ mine[2].targets = <<c.img>> /\ mine[2].fn = "makeImage"
          /\ pc = "doit" => mine = addDep(c).rules
          /\ (MakeImageReturned /\ cur = c.img) => TaskLog = PlainImageLog(c)
          /\ \A k \in 1..Len(log) : log[k].what = c.img => ~(log[k].ev = "qemu" \/ IsOverlayEv(log[k]))
          /\ Get(fs, c.bin, 0) = Get(InitialFs(catalog, {}), c.bin, 0)
          /\ ~exists(KernelDotConfig)

C13_Witness ==
    LET c == cfgs[TargetPath]
    IN  /\ argv.command = "build" /\ pc = "done" /\ run = 1 /\ PlainImage(c)
        /\ Len(c.files) = 2
        /\ \E i, j \in 1..Len(log) :
              /\ log[i] = Ev("success", c.bin, <<"makeBin">>)
              /\ log[j] = Ev("success", c.img, <<"makeImage">>)

\* The step of makeImage that an event of the log belongs to: 1 the base copy,
\* 2 a copy of 'files', 3 the init script's overlay, 4 the emulator, 5 the
\* clearing overlay, 6 the run script's overlay; 0 for any other event.
Step(e) ==
    CASE e.ev = "copyBase" -> 1
      [] e.ev = "rsync" /\ ~isOverlayGlob(e.arg) -> 2
      [] e.ev = "rsync" /\ isOverlayGlob(e.arg) /\ scriptOfGlob(e.arg) = InitSh -> 3
      [] e.ev = "qemu" -> 4
      [] e.ev = "rsync" /\ isOverlayGlob(e.arg) /\ scriptOfGlob(e.arg) = NoVal -> 5
      [] e.ev = "rsync" /\ isOverlayGlob(e.arg) /\ scriptOfGlob(e.arg) \notin {InitSh, NoVal} -> 6
      [] OTHER -> 0

\* Base 1, FilesApplied 2, InitBooted 3, RunScriptApplied 4
PhaseOf(step) == CASE step <= 2 -> step [] step \in 3..5 -> 3 [] OTHER -> 4

\* C14: of two steps that makeImage has taken on one image in an invocation the
\* earlier one belongs to the same or to an earlier phase, no step but the copy
\* of one more of the 'files' is taken twice, and no more files are copied
\* than the configuration lists.
C14_PhaseOrder ==
    LET step == [k \in 1..Len(log) |-> Step(log[k])]
        steps == {k \in 1..Len(log) : step[k] > 0}
    IN  /\ \A i, j \in steps :
              (i < j /\ log[i].what = log[j].what) =>
                 /\ PhaseOf(step[i]) <= PhaseOf(step[j])
                 /\ step[i] <= step[j]
                 /\ step[i] = step[j] => step[i] = 2
        /\ \A k \in steps : step[k] = 2 =>
              LET before == {i \in 1..k : log[i].what = log[k].what /\ step[i] = 2}
                  c == CHOOSE x \in AllConfigs(cfgs) : Has(x, "img") /\ x.img = log[k].what
              IN  /\ Cardinality(before) <= Len(c.files)
                  /\ log[k].arg = c.files[Cardinality(before)].src

\* makeImage has gone through the four phases
C14_Witness ==
    /\ MakeImageReturned
    /\ {Step(TaskLog[i]) : i \in 1..Len(TaskLog)} = 0..6
    /\ Cardinality({i \in 1..Len(TaskLog) : Step(TaskLog[i]) = 2}) = 2

CopyCallLeft == argv.command = "copyImgFiles" /\ pc \in {"done", "raised"}

\* C15 as stated (under SpecCopy): a call of copyImgFiles with a direction that
\* is neither 'in' nor 'out', whose mount and umount commands succeed, ends in
\* the ValueError of line 425 for every file list, without a copy and with the
\* image unmounted.
C15_BadDirectionRaises ==
    (CopyCallLeft /\ argv.direction \notin {"in", "out"} /\ err \notin {"mount", "umount"}) =>
        /\ pc = "raised" /\ err = "direction"
        /\ Count(log, "rsync") = 0 /\ Count(log, "rsync-out") = 0
        /\ mounted = {}

IsPrefix(d, p) == Len(d) <= Len(p) /\ SubSeq(p, 1, Len(d)) = d

\* the paths below the directories of the host
Below ==
    {<<"/a">>, <<"/s">>, <<"/sub">>, <<"/b">>, <<"/l">>, <<"/sub", "/b">>, <<"/sub", "/l">>,
     <<"/s", "/b">>, <<"/s", "/l">>}

\* The regular files in the tree of directory d: every step from d down to the
\* file is an entry of its parent, and every step but the last a directory
\* proper (not a link to one).
RegularUnder(d) ==
    {p \in {d \o b : b \in Below} :
        /\ Kind(p) = "reg"
        /\ \A k \in (Len(d) + 1)..Len(p) :
              /\ SubSeq(p, 1, k) \in Range(Entries(SubSeq(p, 1, k - 1)))
              /\ k < Len(p) => Kind(SubSeq(p, 1, k)) = "dir"}

\* what the 'files' of a configuration are to contribute to file_dep
FilesContribution(c) ==
    UNION {IF isdir(c.files[i].src) THEN RegularUnder(c.files[i].src)
           ELSE IF islink(c.files[i].src) THEN {} ELSE {c.files[i].src} : i \in 1..Len(c.files)}

\* C16 (under SpecDeps): the image rule that addDep emits has in file_dep all
\* regular files in the tree of every 'files' source that is a directory (or a
\* link to one) and every source that is a regular file; and the paths that
\* file_dep holds at or below a 'files' source are these and no symbolic link.
C16_FileDepExpansion ==
    (argv.command = "addDep" /\ pc = "done") =>
        LET c == cfgs[TargetPath]
            r == RuleOf(c.img)
            fromFiles == {f \in Range(r.file_dep) :
                            \E i \in 1..Len(c.files) : IsPrefix(c.files[i].src, f)}
        IN  /\ r.fn = "makeImage"
            /\ FilesContribution(c) \subseteq Range(r.file_dep)
            /\ fromFiles = FilesContribution(c)
            /\ \A f \in fromFiles : ~islink(f)
            /\ \A i \in 1..Len(c.files) : islink(c.files[i].src) => c.files[i].src \notin Range(r.file_dep)

\* a directory with links in it, and a link to a directory, are expanded
C16_Witness ==
    /\ argv.command = "addDep" /\ pc = "done"
    /\ \E i, j \in 1..Len(cfgs[TargetPath].files) :
          /\ cfgs[TargetPath].files[i].src = Dir
          /\ cfgs[TargetPath].files[j].src = LnkDir
    /\ {DirA, DirSubB, LnkDir \o <<"/a">>, LnkDir \o <<"/sub", "/b">>}
           \subseteq Range(RuleOf(WImg).file_dep)

\* At most one image is mounted, a mount is only begun with none active, every
\* mount of the log but the last is followed by its umount before the next
\* mount, and the emulator runs with nothing mounted.
MountsDisjoint ==
    /\ Cardinality(mounted) <= 1
    /\ pc \in {"cif_mount", "mi_qemu"} => mounted = {}
    /\ \A i \in {k \in 1..Len(log) : log[k].ev = "mount"} :
          \A j \in {k \in (i+1)..Len(log) : log[k].ev \in {"mount", "qemu"}} :
             \E m \in (i+1)..(j-1) : log[m].ev = "umount" /\ log[m].what = log[i].what

\* makeImage has been left by an exception
MakeImageRaised ==
    /\ pc = "raised" /\ log # <<>> /\ Last(log).ev = "fail"
    /\ RuleOf(Last(log).what).fn = "makeImage"

\* C17 as stated: the mounts are disjoint, and whenever makeImage has returned
\* or raised nothing is mounted.
C17_Original ==
    /\ MountsDisjoint
    /\ (MakeImageReturned \/ MakeImageRaised) => mounted = {}

\* C17, amended: the mounts are disjoint; nothing is mounted when makeImage has
\* returned, or has raised anything but the failure of the umount command; an
\* image is mounted only inside copyImgFiles or after such a failure, which
\* leaves the one image of the failed umount mounted.
C17_MountExclusive ==
    /\ MountsDisjoint
    /\ MakeImageReturned => mounted = {}
    /\ (MakeImageRaised /\ lastError # "umount") => mounted = {}
    /\ (MakeImageRaised /\ lastError = "umount") => mounted = {FailedConfig.img}
    /\ mounted # {} => (pc \in {"cif_copy", "cif_umount"} \/ (pc = "raised" /\ lastError = "umount"))

\* makeImage has returned after four mounts, the emulator between two of them
C17_Witness ==
    /\ MakeImageReturned /\ mounted = {}
    /\ Count(TaskLog, "mount") = 4 /\ Count(TaskLog, "umount") = 4
    /\ Count(TaskLog, "qemu") = 1

ActionRunning == cur # NoVal /\ pc \notin {"dispatch", "raised", "done"}

\* C18: when the rules have been emitted, every artifact that the action of a
\* rule reads is one of the rule's task dependencies; and while an action runs,
\* each artifact it reads is a task dependency of its rule and doit is through
\* with the task of that artifact (it has built it or found it up to date).
C18_DepsDeclared ==
    RulesBuilt =>
        /\ pc = "doit" =>
              \A i \in 1..Len(workloads) :
                 reads(workloads[i], CfgByName(cfgs, workloads[i].cfg)) \subseteq Range(workloads[i].task_dep)
        /\ ActionRunning =>
              \A a \in reads(RuleOf(cur), TheConfig) :
                 /\ a \in Range(RuleOf(cur).task_dep)
                 /\ a \in finished
                 /\ \E k \in 1..Len(log) : log[k].what = a /\ log[k].ev \in {"success", "skip"}

\* the emulator is about to boot a binary that this build has made, on an
\* image copied from a base this build has made
C18_Witness ==
    /\ RulesBuilt /\ ActionRunning /\ pc = "mi_qemu"
    /\ reads(RuleOf(cur), TheConfig) = {TheConfig.baseImg, TheConfig.bin}
    /\ \A a \in reads(RuleOf(cur), TheConfig) :
          \E k \in 1..Len(log) : log[k].what = a /\ log[k].ev = "success"

\* the tasks that the tasks of S wait for, directly or not, and S itself
RECURSIVE Closure(_)
Closure(S) ==
    LET n == S \cup UNION {Range(taskDeps(RuleOf(t))) : t \in S}
    IN  IF n = S THEN S ELSE Closure(n)

\* the targets of a configuration that handleBuild asks for
TargetsOf(c) ==
    {c.bin} \cup (IF Has(c, "initramfs") THEN {c.bin \o <<"-initramfs">>} ELSE {})
            \cup (IF Has(c, "img") THEN {c.img} ELSE {})

SingleJobBuild ==
    /\ argv.command = "build" /\ pc \notin {"main", "handleBuild", "doit"}
    /\ Has(cfgs[TargetPath], "jobs") /\ job # All /\ jobsToBuild(cfgs[TargetPath]) # <<>>

\* C19 as stated: in a build of one job J of a configuration with jobs, every
\* action started is that of a target of J or of a task such a target waits
\* for.
C19_OnlyTheJob ==
    SingleJobBuild =>
        \A k \in 1..Len(log) : Started(k) =>
            log[k].what \in Closure(TargetsOf(jobsToBuild(cfgs[TargetPath])[1]))

====
